---- MODULE Spec2Model ----
(***************************************************************************)
(* Widget producer/consumer pipeline of main.go.                           *)
(*                                                                         *)
(* One ID generation goroutine (generateIDs) sends 1..numWidgets on the    *)
(* buffered IDChan; numberProducers goroutines (produce/getWidget) turn    *)
(* each id into a widget and push it on the buffered widgetChan;           *)
(* numberConsumers goroutines (consume/getConsumeMessage) range over       *)
(* widgetChan and, on a broken widget, send on the unbuffered sigChan;     *)
(* main waits for the producers, closes widgetChan and waits for the       *)
(* consumers.  A Go program ends when main returns, whatever the other     *)
(* goroutines are doing.                                                   *)
(*                                                                         *)
(* The widget's time stamp (time.Now()) only feeds the printed message     *)
(* and is not part of the record modelled here.                            *)
(***************************************************************************)
EXTENDS Integers, Sequences, FiniteSets, TLC

\* Bounds of the explored configurations: each parameter, and the size of a
\* configuration (goroutines of both pools plus widgets).
MaxProducers == 2
MaxConsumers == 2
MaxWidgets == 3
MaxSize == 7

\* Longest argument list given to parseArgs
MaxArgs == 4

\* const bufferLimit int = 100000
bufferLimit == 100000

VARIABLES
    numberProducers,   \* producerGroup.numberProducers
    numberConsumers,   \* consumerGroup.numberConsumers
    numWidgets,        \* main's numWidgets (the total asked for)
    badWidgetNum,      \* producerGroup.badWidgetNum
    numOfWidgets,      \* producerGroup.numOfWidgets (remaining)
    IDChan,            \* buffered content of IDChan
    IDChanClosed,
    widgetChan,        \* buffered content of widgetChan
    widgetChanClosed,
    producerWG,        \* counter of producerWG
    consumerWG,        \* counter of consumerWG
    producerPC,        \* position of each producer goroutine
    consumerPC,        \* position of each consumer goroutine
    issuerPC,          \* position of the generateIDs goroutine
    mainPC,            \* position of main
    i,                 \* generateIDs' loop variable
    w,                 \* produce's w between getWidget and the push, else NoWidget
    val,               \* consume's val while its broken widget is signalled, else NoWidget
    panicked,          \* a run-time panic ended the process
    \* the revision that stops production with a shared flag (unnamed/part_000)
    producersShouldStop, \* *g.producersShouldStop
    currentID,         \* producerGroup.currentID
    \* parseArgs
    arguments,         \* parseArgs' arguments: the part of the list not yet read
    err,               \* the error parseArgs returns, "" for nil
    args,              \* history: the list parseArgs was called with
    \* history of the run
    issued,            \* ids sent on IDChan, in order
    produced,          \* id and broken of the widgets pushed on widgetChan, in order
    consumed,          \* id and broken of the widgets consumers received, in order
    sigSends,          \* executions of g.sigChan <- 1 begun
    issuedAtSend,      \* Len(issued) when the first sigChan send began, -1 before
    issuedAtSignal,    \* Len(issued) when generateIDs received the signal, -1 before
    pushedAfterSignal, \* per producer, the widgets it pushed after that moment
                       \* (in the flag revision: after producersShouldStop was set)
    receivedAtClose    \* ids received from IDChan when it was closed, -1 before

vars == <<numberProducers, numberConsumers, numWidgets, badWidgetNum,
          numOfWidgets, IDChan, IDChanClosed, widgetChan,
          widgetChanClosed, producerWG, consumerWG, producerPC, consumerPC,
          issuerPC, mainPC, i, w, val, panicked, issued, produced,
          consumed, sigSends, issuedAtSend, issuedAtSignal, pushedAfterSignal,
          receivedAtClose, producersShouldStop, currentID, arguments, err,
          args>>

config == <<numberProducers, numberConsumers, numWidgets, badWidgetNum>>
history == <<issued, produced, consumed, sigSends, issuedAtSend,
             issuedAtSignal, pushedAfterSignal, receivedAtClose>>

\* the state only the flag revision has
flag == <<producersShouldStop, currentID>>

\* the state of parseArgs
parse == <<arguments, err, args>>

Producers == 1..MaxProducers
Consumers == 1..MaxConsumers

max(a, b) == IF a > b THEN a ELSE b

\* strconv.Itoa
Digits == <<"0", "1", "2", "3", "4", "5", "6", "7", "8", "9">>

RECURSIVE ItoaNat(_)
ItoaNat(n) == IF n < 10 THEN Digits[n + 1]
              ELSE ItoaNat(n \div 10) \o Digits[(n % 10) + 1]

Itoa(n) == IF n < 0 THEN "-" \o ItoaNat(-n) ELSE ItoaNat(n)

\* widget{} as returned with an error, and the widget getWidget builds
NoWidget == [id |-> "", source |-> "", broken |-> FALSE]

\* a comparison that marks every widget from the bad one on
isBrokenFromThenOn(id) == id >= badWidgetNum

\* a comparison that takes the ordinal as zero-based
isBrokenZeroBased(id) == id + 1 = badWidgetNum

isBroken(id) == id = badWidgetNum

\* a widget numbered by the count of widgets claimed so far instead of by
\* the id received
newWidgetFromCounter(id, producerNumber) ==
    [id |-> Itoa(numWidgets - numOfWidgets),
     source |-> "Producer_" \o Itoa(producerNumber),
     broken |-> isBroken(numWidgets - numOfWidgets)]

newWidget(id, producerNumber) ==
    [id |-> Itoa(id),
     source |-> "Producer_" \o Itoa(producerNumber),
     broken |-> isBroken(id)]

\* what the history keeps of a widget
Logged(x) == [id |-> x.id, broken |-> x.broken]

\* channels sized by the number of producers
CapacityPerProducer == numberProducers

\* capacity of widgetChan and of IDChan
Capacity == max(bufferLimit, numWidgets)

\* the process is alive: main has not returned and nothing panicked
Running == mainPC # "done" /\ ~panicked

\* -k: the default -1 (no widget is broken) or an ordinal; ordinals above
\* numWidgets are out of range too
BadWidgetNums == {-1} \cup 1..MaxWidgets

Init ==
    /\ numberProducers \in 1..MaxProducers
    /\ numberConsumers \in 1..MaxConsumers
    /\ numWidgets \in 0..MaxWidgets
    /\ badWidgetNum \in BadWidgetNums
    /\ numberProducers + numberConsumers + numWidgets <= MaxSize
    /\ numOfWidgets = numWidgets
    /\ IDChan = <<>>
    /\ IDChanClosed = FALSE
    /\ widgetChan = <<>>
    /\ widgetChanClosed = FALSE
    /\ producerWG = numberProducers
    /\ consumerWG = numberConsumers
    /\ producerPC = [p \in Producers |-> IF p <= numberProducers THEN "getWidget" ELSE "off"]
    /\ consumerPC = [c \in Consumers |-> IF c <= numberConsumers THEN "recv" ELSE "off"]
    /\ issuerPC = "select"
    /\ mainPC = "waitProducers"
    /\ i = 1
    /\ w = [p \in Producers |-> NoWidget]
    /\ val = [c \in Consumers |-> NoWidget]
    /\ panicked = FALSE
    /\ issued = <<>>
    /\ produced = <<>>
    /\ consumed = <<>>
    /\ sigSends = 0
    /\ issuedAtSend = -1
    /\ issuedAtSignal = -1
    /\ pushedAfterSignal = [p \in Producers |-> 0]
    /\ receivedAtClose = -1
    /\ arguments = <<>>
    /\ err = ""
    /\ args = <<>>
    /\ producersShouldStop = FALSE
    /\ currentID = 1

(***************************************************************************)
(* generateIDs                                                             *)
(***************************************************************************)

\* consumers blocked in g.sigChan <- 1 (the send queue of the unbuffered sigChan)
Parked == {c \in Consumers : consumerPC[c] = "parked"}

\* a select that never finds the signal
SelectNeverReady == FALSE

\* select: the receive case can proceed iff a sender is waiting on sigChan;
\* default is chosen only otherwise
SelectReady == Parked # {}

\* <-sigChan completes the send of consumer c, which returns its "found a
\* broken widget" message, prints it and goes back to the head of its loop
Receive(c) ==
    /\ consumerPC' = [consumerPC EXCEPT ![c] = "recv"]
    /\ val' = [val EXCEPT ![c] = NoWidget]

\* bookkeeping for the moment generateIDs receives from sigChan
RecordSignal == issuedAtSignal' = Len(issued)

\* for i := 1; i <= numWidgets; i++ { select { case <-sigChan: ... default: ... } }
IssuerSelect ==
    /\ Running
    /\ issuerPC = "select"
    /\ IF i > numWidgets
       THEN /\ issuerPC' = "wait"
            /\ UNCHANGED <<consumerPC, val, issuedAtSignal>>
       ELSE IF SelectReady
       THEN /\ \E c \in Parked : Receive(c)
            /\ issuerPC' = "close206"
            /\ RecordSignal
       ELSE /\ issuerPC' = "send"
            /\ UNCHANGED <<consumerPC, val, issuedAtSignal>>
    /\ UNCHANGED <<config, parse, flag, numOfWidgets, IDChan, IDChanClosed,
                   widgetChan, widgetChanClosed, producerWG, consumerWG,
                   producerPC, mainPC, i, w, panicked, issued,
                   produced, consumed, sigSends, issuedAtSend, pushedAfterSignal,
                   receivedAtClose>>

\* a send that skips an id
IssuerSendSkipping ==
    /\ Running
    /\ issuerPC = "send"
    /\ ~IDChanClosed
    /\ Len(IDChan) < Capacity
    /\ IDChan' = Append(IDChan, i)
    /\ issued' = Append(issued, i)
    /\ i' = i + 2
    /\ issuerPC' = "select"
    /\ UNCHANGED <<config, parse, flag, numOfWidgets, IDChanClosed, widgetChan,
                   widgetChanClosed, producerWG, consumerWG, producerPC,
                   consumerPC, mainPC, w, val, panicked, produced, consumed,
                   sigSends, issuedAtSend, issuedAtSignal, pushedAfterSignal,
                   receivedAtClose>>

\* a generateIDs that keeps the remaining count itself, decrementing it with
\* every id it sends
IssuerSendCounting ==
    /\ Running
    /\ issuerPC = "send"
    /\ ~IDChanClosed
    /\ Len(IDChan) < Capacity
    /\ IDChan' = Append(IDChan, i)
    /\ issued' = Append(issued, i)
    /\ i' = i + 1
    /\ numOfWidgets' = numOfWidgets - 1
    /\ issuerPC' = "select"
    /\ UNCHANGED <<config, parse, flag, IDChanClosed, widgetChan,
                   widgetChanClosed, producerWG, consumerWG, producerPC,
                   consumerPC, mainPC, w, val, panicked, produced, consumed,
                   sigSends, issuedAtSend, issuedAtSignal, pushedAfterSignal,
                   receivedAtClose>>

\* default: IDChan <- i, then i++
IssuerSend ==
    /\ Running
    /\ issuerPC = "send"
    /\ IF IDChanClosed
       THEN /\ panicked' = TRUE
            /\ UNCHANGED <<IDChan, issued, i, issuerPC>>
       ELSE /\ Len(IDChan) < Capacity
            /\ IDChan' = Append(IDChan, i)
            /\ issued' = Append(issued, i)
            /\ i' = i + 1
            /\ issuerPC' = "select"
            /\ UNCHANGED panicked
    /\ UNCHANGED <<config, parse, flag, numOfWidgets, IDChanClosed, widgetChan,
                   widgetChanClosed, producerWG, consumerWG, producerPC,
                   consumerPC, mainPC, w, val, produced, consumed,
                   sigSends, issuedAtSend, issuedAtSignal, pushedAfterSignal,
                   receivedAtClose>>

\* generateIDs without the blocking read: it returns once the ids are out
IssuerWaitReturns ==
    /\ Running
    /\ issuerPC = "wait"
    /\ issuerPC' = "done"
    /\ UNCHANGED <<config, parse, flag, numOfWidgets, IDChan, IDChanClosed,
                   widgetChan, widgetChanClosed, producerWG, consumerWG,
                   producerPC, consumerPC, mainPC, i, w, val, panicked,
                   history>>

\* generateIDs closing IDChan once the ids are out, without the blocking read
IssuerWaitCloses ==
    /\ Running
    /\ issuerPC = "wait"
    /\ issuerPC' = "close215"
    /\ UNCHANGED <<config, parse, flag, numOfWidgets, IDChan, IDChanClosed,
                   widgetChan, widgetChanClosed, producerWG, consumerWG,
                   producerPC, consumerPC, mainPC, i, w, val, panicked,
                   history>>

\* the read after the loop as a poll: a select with a default that closes
\* IDChan when no sender is waiting yet
IssuerWaitPolls ==
    /\ Running
    /\ issuerPC = "wait"
    /\ issuerPC' = "close215"
    /\ IF Parked # {}
       THEN /\ \E c \in Parked : Receive(c)
            /\ RecordSignal
       ELSE UNCHANGED <<consumerPC, val, issuedAtSignal>>
    /\ UNCHANGED <<config, parse, flag, numOfWidgets, IDChan, IDChanClosed,
                   widgetChan, widgetChanClosed, producerWG, consumerWG,
                   producerPC, mainPC, i, w, panicked, issued,
                   produced, consumed, sigSends, issuedAtSend, pushedAfterSignal,
                   receivedAtClose>>

\* the blocking read after the loop: <-sigChan
IssuerWait ==
    /\ Running
    /\ issuerPC = "wait"
    /\ IF Parked # {}
       THEN /\ \E c \in Parked : Receive(c)
            /\ issuerPC' = "close215"
            /\ RecordSignal
       ELSE /\ issuerPC' = "waiting"
            /\ UNCHANGED <<consumerPC, val, issuedAtSignal>>
    /\ UNCHANGED <<config, parse, flag, numOfWidgets, IDChan, IDChanClosed,
                   widgetChan, widgetChanClosed, producerWG, consumerWG,
                   producerPC, mainPC, i, w, panicked, issued,
                   produced, consumed, sigSends, issuedAtSend, pushedAfterSignal,
                   receivedAtClose>>

\* close(IDChan) and return, after either receive
IssuerClose ==
    /\ Running
    /\ issuerPC \in {"close206", "close215"}
    /\ IF IDChanClosed
       THEN /\ panicked' = TRUE
            /\ UNCHANGED <<IDChanClosed, receivedAtClose, issuerPC>>
       ELSE /\ IDChanClosed' = TRUE
            /\ receivedAtClose' = Len(issued) - Len(IDChan)
            /\ issuerPC' = "done"
            /\ UNCHANGED panicked
    /\ UNCHANGED <<config, parse, flag, numOfWidgets, IDChan, widgetChan,
                   widgetChanClosed, producerWG, consumerWG, producerPC,
                   consumerPC, mainPC, i, w, val, issued, produced,
                   consumed, sigSends, issuedAtSend, issuedAtSignal,
                   pushedAfterSignal>>

generateIDs == IssuerSelect \/ IssuerSend \/ IssuerWait \/ IssuerClose

(***************************************************************************)
(* producerGroup.produce / getWidget                                       *)
(***************************************************************************)

\* a critical section that decrements first and returns the error when the
\* count has gone below zero
ProducerCheckBelowZero(p) ==
    /\ Running
    /\ producerPC[p] = "getWidget"
    /\ numOfWidgets' = numOfWidgets - 1
    /\ IF numOfWidgets' < 0
       THEN /\ producerPC' = [producerPC EXCEPT ![p] = "done"]
            /\ producerWG' = producerWG - 1
       ELSE /\ producerPC' = [producerPC EXCEPT ![p] = "recvID"]
            /\ UNCHANGED producerWG
    /\ UNCHANGED <<config, parse, flag, IDChan, IDChanClosed, widgetChan,
                   widgetChanClosed, consumerWG, consumerPC,
                   issuerPC, mainPC, i, w, val, panicked, history>>

\* a critical section that decrements before it tests for zero
ProducerCheckAfterDecrement(p) ==
    /\ Running
    /\ producerPC[p] = "getWidget"
    /\ numOfWidgets' = numOfWidgets - 1
    /\ IF numOfWidgets' = 0
       THEN /\ producerPC' = [producerPC EXCEPT ![p] = "done"]
            /\ producerWG' = producerWG - 1
       ELSE /\ producerPC' = [producerPC EXCEPT ![p] = "recvID"]
            /\ UNCHANGED producerWG
    /\ UNCHANGED <<config, parse, flag, IDChan, IDChanClosed, widgetChan,
                   widgetChanClosed, consumerWG, consumerPC,
                   issuerPC, mainPC, i, w, val, panicked, history>>

\* The critical section of getWidget, which numMutex makes one step:
\* Lock; if g.numOfWidgets == 0 { Unlock; return error }; g.numOfWidgets--;
\* Unlock.  On the error produce returns, which runs its deferred g.wg.Done().
ProducerCheck(p) ==
    /\ Running
    /\ producerPC[p] = "getWidget"
    /\ IF numOfWidgets = 0
       THEN /\ producerPC' = [producerPC EXCEPT ![p] = "done"]
            /\ producerWG' = producerWG - 1
            /\ UNCHANGED numOfWidgets
       ELSE /\ numOfWidgets' = numOfWidgets - 1
            /\ producerPC' = [producerPC EXCEPT ![p] = "recvID"]
            /\ UNCHANGED producerWG
    /\ UNCHANGED <<config, parse, flag, IDChan, IDChanClosed, widgetChan,
                   widgetChanClosed, consumerWG, consumerPC,
                   issuerPC, mainPC, i, w, val, panicked, history>>

\* a receive that reports !ok as soon as IDChan is closed, whatever it still
\* buffers
ProducerRecvIDClosedFirst(p) ==
    /\ Running
    /\ producerPC[p] = "recvID"
    /\ IF IDChanClosed
       THEN /\ producerPC' = [producerPC EXCEPT ![p] = "done"]
            /\ producerWG' = producerWG - 1
            /\ UNCHANGED <<w, IDChan>>
       ELSE /\ IDChan # <<>>
            /\ w' = [w EXCEPT ![p] = newWidget(Head(IDChan), p)]
            /\ UNCHANGED producerWG
            /\ IDChan' = Tail(IDChan)
            /\ producerPC' = [producerPC EXCEPT ![p] = "push"]
    /\ UNCHANGED <<config, parse, flag, numOfWidgets, IDChanClosed, widgetChan,
                   widgetChanClosed, consumerWG, consumerPC,
                   issuerPC, mainPC, i, val, panicked, history>>

\* currentID, ok := <-g.IDChan: a buffered value if there is one, also when
\* the channel is closed; !ok only when it is closed and empty, and then
\* produce returns through its deferred g.wg.Done().  With an id the widget
\* is built and returned to produce.
ProducerRecvID(p) ==
    /\ Running
    /\ producerPC[p] = "recvID"
    /\ IF IDChan # <<>>
       THEN /\ w' = [w EXCEPT ![p] = newWidget(Head(IDChan), p)]
            /\ UNCHANGED producerWG
            /\ IDChan' = Tail(IDChan)
            /\ producerPC' = [producerPC EXCEPT ![p] = "push"]
       ELSE /\ IDChanClosed
            /\ producerPC' = [producerPC EXCEPT ![p] = "done"]
            /\ producerWG' = producerWG - 1
            /\ UNCHANGED <<w, IDChan>>
    /\ UNCHANGED <<config, parse, flag, numOfWidgets, IDChanClosed, widgetChan,
                   widgetChanClosed, consumerWG, consumerPC,
                   issuerPC, mainPC, i, val, panicked, history>>

\* g.widgetChan <- w
ProducerPush(p) ==
    /\ Running
    /\ producerPC[p] = "push"
    /\ IF widgetChanClosed
       THEN /\ panicked' = TRUE
            /\ UNCHANGED <<widgetChan, produced, producerPC, w, pushedAfterSignal>>
       ELSE /\ Len(widgetChan) < Capacity
            /\ widgetChan' = Append(widgetChan, w[p])
            /\ produced' = Append(produced, Logged(w[p]))
            /\ pushedAfterSignal' = IF issuedAtSignal >= 0
                                    THEN [pushedAfterSignal EXCEPT ![p] = @ + 1]
                                    ELSE pushedAfterSignal
            /\ producerPC' = [producerPC EXCEPT ![p] = "getWidget"]
            /\ w' = [w EXCEPT ![p] = NoWidget]
            /\ UNCHANGED panicked
    /\ UNCHANGED <<config, parse, flag, numOfWidgets, IDChan, IDChanClosed,
                   widgetChanClosed, producerWG, consumerWG, consumerPC,
                   issuerPC, mainPC, i, val, issued, consumed,
                   sigSends, issuedAtSend, issuedAtSignal,
                   receivedAtClose>>

produce(p) ==
    \/ ProducerCheck(p)
    \/ ProducerRecvID(p)
    \/ ProducerPush(p)

(***************************************************************************)
(* consumerGroup.consume / getConsumeMessage                               *)
(***************************************************************************)

\* a loop that ends as soon as the channel is closed, buffered or not
RangeDoneOnClose == widgetChanClosed

\* for val := range g.widgetChan: the loop ends when the channel is closed
\* and its buffer is empty
RangeDone == widgetChanClosed /\ widgetChan = <<>>

\* One iteration of the loop up to its next channel operation.  A normal
\* widget is received, its message built by getConsumeMessage and printed;
\* a broken one is received and the consumer stands before g.sigChan <- 1.
\* When the range ends consume returns through its deferred g.wg.Done().
ConsumerRecv(c) ==
    /\ Running
    /\ consumerPC[c] = "recv"
    /\ IF RangeDone
       THEN /\ consumerPC' = [consumerPC EXCEPT ![c] = "done"]
            /\ consumerWG' = consumerWG - 1
            /\ UNCHANGED <<widgetChan, val, consumed>>
       ELSE /\ widgetChan # <<>>
            /\ UNCHANGED consumerWG
            /\ widgetChan' = Tail(widgetChan)
            /\ consumed' = Append(consumed, Logged(Head(widgetChan)))
            /\ IF Head(widgetChan).broken
               THEN /\ val' = [val EXCEPT ![c] = Head(widgetChan)]
                    /\ consumerPC' = [consumerPC EXCEPT ![c] = "signal"]
               ELSE UNCHANGED <<val, consumerPC>>
    /\ UNCHANGED <<config, parse, flag, numOfWidgets, IDChan, IDChanClosed,
                   widgetChanClosed, producerWG, producerPC,
                   issuerPC, mainPC, i, w, panicked, issued, produced,
                   sigSends, issuedAtSend, issuedAtSignal, pushedAfterSignal,
                   receivedAtClose>>

\* a stop that also empties widgetChan when the signal is handed over
ConsumerSignalFlushing(c) ==
    /\ Running
    /\ consumerPC[c] = "signal"
    /\ sigSends' = sigSends + 1
    /\ issuedAtSend' = IF issuedAtSend = -1 THEN Len(issued) ELSE issuedAtSend
    /\ IF issuerPC = "waiting"
       THEN /\ issuerPC' = "close215"
            /\ consumerPC' = [consumerPC EXCEPT ![c] = "recv"]
            /\ val' = [val EXCEPT ![c] = NoWidget]
            /\ widgetChan' = <<>>
            /\ RecordSignal
       ELSE /\ consumerPC' = [consumerPC EXCEPT ![c] = "parked"]
            /\ UNCHANGED <<val, issuerPC, issuedAtSignal, widgetChan>>
    /\ UNCHANGED <<config, parse, flag, numOfWidgets, IDChan, IDChanClosed,
                   widgetChanClosed, producerWG, consumerWG,
                   producerPC, mainPC, i, w, panicked, issued,
                   produced, consumed, pushedAfterSignal, receivedAtClose>>

\* getConsumeMessage on a broken widget: g.sigChan <- 1.  The value is handed
\* over at once if generateIDs is blocked in its read; otherwise the consumer
\* blocks until generateIDs receives.
ConsumerSignal(c) ==
    /\ Running
    /\ consumerPC[c] = "signal"
    /\ sigSends' = sigSends + 1
    /\ issuedAtSend' = IF issuedAtSend = -1 THEN Len(issued) ELSE issuedAtSend
    /\ IF issuerPC = "waiting"
       THEN /\ issuerPC' = "close215"
            /\ consumerPC' = [consumerPC EXCEPT ![c] = "recv"]
            /\ val' = [val EXCEPT ![c] = NoWidget]
            /\ RecordSignal
       ELSE /\ consumerPC' = [consumerPC EXCEPT ![c] = "parked"]
            /\ UNCHANGED <<val, issuerPC, issuedAtSignal>>
    /\ UNCHANGED <<config, parse, flag, numOfWidgets, IDChan, IDChanClosed,
                   widgetChan, widgetChanClosed, producerWG, consumerWG,
                   producerPC, mainPC, i, w, panicked, issued,
                   produced, consumed, pushedAfterSignal, receivedAtClose>>

consume(c) ==
    \/ ConsumerRecv(c)
    \/ ConsumerSignal(c)

(***************************************************************************)
(* main                                                                    *)
(***************************************************************************)

\* Waits that return at once
ProducersNotAwaited == TRUE
ConsumersNotAwaited == TRUE

\* producerWG.Wait() / consumerWG.Wait() return when the counter is zero
ProducersDone == producerWG = 0
ConsumersDone == consumerWG = 0

MainWaitProducers ==
    /\ Running
    /\ mainPC = "waitProducers"
    /\ ProducersDone
    /\ mainPC' = "close"
    /\ UNCHANGED <<config, parse, flag, numOfWidgets, IDChan, IDChanClosed,
                   widgetChan, widgetChanClosed, producerWG, consumerWG,
                   producerPC, consumerPC, issuerPC, i, w, val,
                   panicked, history>>

\* close(widgetChan)
MainClose ==
    /\ Running
    /\ mainPC = "close"
    /\ widgetChanClosed' = TRUE
    /\ mainPC' = "waitConsumers"
    /\ UNCHANGED <<config, parse, flag, numOfWidgets, IDChan, IDChanClosed,
                   widgetChan, producerWG, consumerWG, producerPC, consumerPC,
                   issuerPC, i, w, val, panicked, history>>

\* consumerWG.Wait(), then main returns and the process ends
MainWaitConsumers ==
    /\ Running
    /\ mainPC = "waitConsumers"
    /\ ConsumersDone
    /\ mainPC' = "done"
    /\ UNCHANGED <<config, parse, flag, numOfWidgets, IDChan, IDChanClosed,
                   widgetChan, widgetChanClosed, producerWG, consumerWG,
                   producerPC, consumerPC, issuerPC, i, w, val,
                   panicked, history>>

main == MainWaitProducers \/ MainClose \/ MainWaitConsumers

Next ==
    \/ generateIDs
    \/ \E p \in Producers : produce(p)
    \/ \E c \in Consumers : consume(c)
    \/ main

Spec == Init /\ [][Next]_vars

\* The Go scheduler runs some goroutine whenever one can take a step.  Every
\* goroutine takes finitely many steps, so this is all the fairness needed.
FairSpec == Spec /\ WF_vars(Next)

(***************************************************************************)
(* The stop operation driven twice                                         *)
(***************************************************************************)

\* widget{"1", "Producer_1", time.Now(), true}: the broken widget TestConsumers
\* builds by hand for getConsumeMessage
BrokenWidget == [id |-> "1", source |-> "Producer_1", broken |-> TRUE]

\* The pipeline started with such widgets already on widgetChan.  With two
\* of them getConsumeMessage meets a broken widget twice in one run: two
\* consumers take one each, or one consumer takes both in turn.
TwoStopsInit ==
    /\ numberProducers \in 1..MaxProducers
    /\ numberConsumers \in 1..MaxConsumers
    /\ numWidgets \in 0..MaxWidgets
    /\ badWidgetNum \in BadWidgetNums
    /\ numberProducers + numberConsumers + numWidgets <= MaxSize
    /\ numOfWidgets = numWidgets
    /\ IDChan = <<>>
    /\ IDChanClosed = FALSE
    /\ widgetChan \in {<<BrokenWidget>>, <<BrokenWidget, BrokenWidget>>}
    /\ widgetChanClosed = FALSE
    /\ producerWG = numberProducers
    /\ consumerWG = numberConsumers
    /\ producerPC = [p \in Producers |-> IF p <= numberProducers THEN "getWidget" ELSE "off"]
    /\ consumerPC = [c \in Consumers |-> IF c <= numberConsumers THEN "recv" ELSE "off"]
    /\ issuerPC = "select"
    /\ mainPC = "waitProducers"
    /\ i = 1
    /\ w = [p \in Producers |-> NoWidget]
    /\ val = [c \in Consumers |-> NoWidget]
    /\ panicked = FALSE
    /\ issued = <<>>
    /\ produced = <<>>
    /\ consumed = <<>>
    /\ sigSends = 0
    /\ issuedAtSend = -1
    /\ issuedAtSignal = -1
    /\ pushedAfterSignal = [p \in Producers |-> 0]
    /\ receivedAtClose = -1
    /\ arguments = <<>>
    /\ err = ""
    /\ args = <<>>
    /\ producersShouldStop = FALSE
    /\ currentID = 1

TwoStopsSpec == TwoStopsInit /\ [][Next]_vars

(***************************************************************************)
(* main from the parsed arguments on                                       *)
(***************************************************************************)

\* parseArgs accepts any integer for -p, -c, -n and -k; main does not test
\* them.  Zero and -1 stand for the counts that are not positive.
StartInit ==
    /\ numberProducers \in -1..MaxProducers
    /\ numberConsumers \in -1..MaxConsumers
    /\ numWidgets \in 0..MaxWidgets
    /\ badWidgetNum \in BadWidgetNums
    /\ numberProducers + numberConsumers + numWidgets <= MaxSize
    /\ numOfWidgets = numWidgets
    /\ IDChan = <<>>
    /\ IDChanClosed = FALSE
    /\ widgetChan = <<>>
    /\ widgetChanClosed = FALSE
    /\ producerWG = 0
    /\ consumerWG = 0
    /\ producerPC = [p \in Producers |-> "off"]
    /\ consumerPC = [c \in Consumers |-> "off"]
    /\ issuerPC = "off"
    /\ mainPC = "start"
    /\ i = 1
    /\ w = [p \in Producers |-> NoWidget]
    /\ val = [c \in Consumers |-> NoWidget]
    /\ panicked = FALSE
    /\ issued = <<>>
    /\ produced = <<>>
    /\ consumed = <<>>
    /\ sigSends = 0
    /\ issuedAtSend = -1
    /\ issuedAtSignal = -1
    /\ pushedAfterSignal = [p \in Producers |-> 0]
    /\ receivedAtClose = -1
    /\ arguments = <<>>
    /\ err = ""
    /\ args = <<>>
    /\ producersShouldStop = FALSE
    /\ currentID = 1

\* make the three channels, then go generateIDs(IDChan, sigChan, numWidgets)
MainSpawnIssuer ==
    /\ Running
    /\ mainPC = "start"
    /\ issuerPC' = "select"
    /\ mainPC' = "spawn"
    /\ UNCHANGED <<config, parse, flag, numOfWidgets, IDChan, IDChanClosed,
                   widgetChan, widgetChanClosed, producerWG, consumerWG,
                   producerPC, consumerPC, i, w, val, panicked, history>>

\* producerWG.Add(numProducers); consumerWG.Add(numConsumers), each of which
\* panics on a negative counter; then spawnProducers() and spawnConsumers(),
\* whose loops from 1 start nothing when the count is zero.
MainSpawnGroups ==
    /\ Running
    /\ mainPC = "spawn"
    /\ IF numberProducers < 0 \/ numberConsumers < 0
       THEN /\ panicked' = TRUE
            /\ UNCHANGED <<producerWG, consumerWG, producerPC, consumerPC, mainPC>>
       ELSE /\ producerWG' = numberProducers
            /\ consumerWG' = numberConsumers
            /\ producerPC' = [p \in Producers |->
                                 IF p <= numberProducers THEN "getWidget" ELSE "off"]
            /\ consumerPC' = [c \in Consumers |->
                                 IF c <= numberConsumers THEN "recv" ELSE "off"]
            /\ mainPC' = "waitProducers"
            /\ UNCHANGED panicked
    /\ UNCHANGED <<config, parse, flag, numOfWidgets, IDChan, IDChanClosed,
                   widgetChan, widgetChanClosed, issuerPC, i, w, val, history>>

StartNext == MainSpawnIssuer \/ MainSpawnGroups \/ Next

StartSpec == StartInit /\ [][StartNext]_vars

(***************************************************************************)
(* The revision with the shared flag (unnamed/part_000)                    *)
(*                                                                         *)
(* No ID goroutine and no IDChan or sigChan: producers number the widgets  *)
(* from currentID under idMutex, and a consumer that meets the broken      *)
(* widget sets producersShouldStop under producersShouldStopMutex.  The    *)
(* widget record, the consume loop and main's wait, close, wait are those  *)
(* of main.go.                                                             *)
(***************************************************************************)

ShouldStopInit ==
    /\ numberProducers \in 1..MaxProducers
    /\ numberConsumers \in 1..MaxConsumers
    /\ numWidgets \in 0..MaxWidgets
    /\ badWidgetNum \in BadWidgetNums
    /\ numberProducers + numberConsumers + numWidgets <= MaxSize
    /\ numOfWidgets = numWidgets
    /\ currentID = 1
    /\ producersShouldStop = FALSE
    /\ widgetChan = <<>>
    /\ widgetChanClosed = FALSE
    /\ producerWG = numberProducers
    /\ consumerWG = numberConsumers
    /\ producerPC = [p \in Producers |-> IF p <= numberProducers THEN "getWidget" ELSE "off"]
    /\ consumerPC = [c \in Consumers |-> IF c <= numberConsumers THEN "recv" ELSE "off"]
    /\ mainPC = "waitProducers"
    /\ w = [p \in Producers |-> NoWidget]
    /\ val = [c \in Consumers |-> NoWidget]
    /\ panicked = FALSE
    /\ produced = <<>>
    /\ consumed = <<>>
    /\ pushedAfterSignal = [p \in Producers |-> 0]
    \* what this revision does not have
    /\ IDChan = <<>>
    /\ IDChanClosed = FALSE
    /\ issuerPC = "off"
    /\ i = 1
    /\ issued = <<>>
    /\ sigSends = 0
    /\ issuedAtSend = -1
    /\ issuedAtSignal = -1
    /\ receivedAtClose = -1
    /\ arguments = <<>>
    /\ err = ""
    /\ args = <<>>

\* the state the flag revision's producers and consumers leave alone
channel == <<IDChan, IDChanClosed, issuerPC, i, issued, sigSends,
             issuedAtSend, issuedAtSignal, receivedAtClose>>

\* a getWidget that does not look at the flag
ShouldStopCheckSkipped(p) ==
    /\ Running
    /\ producerPC[p] = "getWidget"
    /\ producerPC' = [producerPC EXCEPT ![p] = "critical"]
    /\ UNCHANGED producerWG
    /\ UNCHANGED <<config, parse, flag, channel, numOfWidgets, widgetChan,
                   widgetChanClosed, consumerWG, consumerPC, mainPC, w, val,
                   panicked, produced, consumed, pushedAfterSignal>>

\* getWidget's first critical section: Lock; if *g.producersShouldStop
\* { Unlock; return error }; Unlock.  On the error produce returns through
\* its deferred g.wg.Done().
ShouldStopCheck(p) ==
    /\ Running
    /\ producerPC[p] = "getWidget"
    /\ IF producersShouldStop
       THEN /\ producerPC' = [producerPC EXCEPT ![p] = "done"]
            /\ producerWG' = producerWG - 1
       ELSE /\ producerPC' = [producerPC EXCEPT ![p] = "critical"]
            /\ UNCHANGED producerWG
    /\ UNCHANGED <<config, parse, flag, channel, numOfWidgets, widgetChan,
                   widgetChanClosed, consumerWG, consumerPC, mainPC, w, val,
                   panicked, produced, consumed, pushedAfterSignal>>

\* getWidget's second critical section, under idMutex: if g.numOfWidgets == 0
\* return error; currentID := g.currentID; g.currentID++; g.numOfWidgets--;
\* then the widget is built from the local currentID and returned.
ShouldStopNumber(p) ==
    /\ Running
    /\ producerPC[p] = "critical"
    /\ IF numOfWidgets = 0
       THEN /\ producerPC' = [producerPC EXCEPT ![p] = "done"]
            /\ producerWG' = producerWG - 1
            /\ UNCHANGED <<numOfWidgets, currentID, w>>
       ELSE /\ currentID' = currentID + 1
            /\ numOfWidgets' = numOfWidgets - 1
            /\ w' = [w EXCEPT ![p] = newWidget(currentID, p)]
            /\ producerPC' = [producerPC EXCEPT ![p] = "push"]
            /\ UNCHANGED producerWG
    /\ UNCHANGED <<config, parse, channel, producersShouldStop, widgetChan,
                   widgetChanClosed, consumerWG, consumerPC, mainPC, val,
                   panicked, produced, consumed, pushedAfterSignal>>

\* g.widgetChan <- w
ShouldStopPush(p) ==
    /\ Running
    /\ producerPC[p] = "push"
    /\ IF widgetChanClosed
       THEN /\ panicked' = TRUE
            /\ UNCHANGED <<widgetChan, produced, producerPC, w, pushedAfterSignal>>
       ELSE /\ Len(widgetChan) < Capacity
            /\ widgetChan' = Append(widgetChan, w[p])
            /\ produced' = Append(produced, Logged(w[p]))
            /\ pushedAfterSignal' = IF producersShouldStop
                                    THEN [pushedAfterSignal EXCEPT ![p] = @ + 1]
                                    ELSE pushedAfterSignal
            /\ producerPC' = [producerPC EXCEPT ![p] = "getWidget"]
            /\ w' = [w EXCEPT ![p] = NoWidget]
            /\ UNCHANGED panicked
    /\ UNCHANGED <<config, parse, flag, channel, numOfWidgets, widgetChanClosed,
                   producerWG, consumerWG, consumerPC, mainPC, val, consumed>>

\* One iteration of consume's range loop up to the flag: a normal widget is
\* received and its message printed; a broken one is received and the
\* consumer stands before the Lock in getConsumeMessage.
ShouldStopRecv(c) ==
    /\ Running
    /\ consumerPC[c] = "recv"
    /\ IF RangeDone
       THEN /\ consumerPC' = [consumerPC EXCEPT ![c] = "done"]
            /\ consumerWG' = consumerWG - 1
            /\ UNCHANGED <<widgetChan, val, consumed>>
       ELSE /\ widgetChan # <<>>
            /\ UNCHANGED consumerWG
            /\ widgetChan' = Tail(widgetChan)
            /\ consumed' = Append(consumed, Logged(Head(widgetChan)))
            /\ IF Head(widgetChan).broken
               THEN /\ val' = [val EXCEPT ![c] = Head(widgetChan)]
                    /\ consumerPC' = [consumerPC EXCEPT ![c] = "setStop"]
               ELSE UNCHANGED <<val, consumerPC>>
    /\ UNCHANGED <<config, parse, flag, channel, numOfWidgets, widgetChanClosed,
                   producerWG, producerPC, mainPC, w, panicked, produced,
                   pushedAfterSignal>>

\* a getConsumeMessage that reports the broken widget without setting the flag
ShouldStopSetForgotten(c) ==
    /\ Running
    /\ consumerPC[c] = "setStop"
    /\ consumerPC' = [consumerPC EXCEPT ![c] = "recv"]
    /\ val' = [val EXCEPT ![c] = NoWidget]
    /\ UNCHANGED <<config, parse, flag, channel, numOfWidgets, widgetChan,
                   widgetChanClosed, producerWG, consumerWG, producerPC,
                   mainPC, w, panicked, produced, consumed, pushedAfterSignal>>

\* getConsumeMessage on a broken widget: Lock; *g.producersShouldStop = true;
\* Unlock; the message is returned and printed
ShouldStopSet(c) ==
    /\ Running
    /\ consumerPC[c] = "setStop"
    /\ producersShouldStop' = TRUE
    /\ consumerPC' = [consumerPC EXCEPT ![c] = "recv"]
    /\ val' = [val EXCEPT ![c] = NoWidget]
    /\ UNCHANGED <<config, parse, channel, currentID, numOfWidgets, widgetChan,
                   widgetChanClosed, producerWG, consumerWG, producerPC,
                   mainPC, w, panicked, produced, consumed, pushedAfterSignal>>

ShouldStopNext ==
    \/ \E p \in Producers :
          ShouldStopCheck(p) \/ ShouldStopNumber(p) \/ ShouldStopPush(p)
    \/ \E c \in Consumers : ShouldStopRecv(c) \/ ShouldStopSet(c)
    \/ main

ShouldStopSpec == ShouldStopInit /\ [][ShouldStopNext]_vars

(***************************************************************************)
(* parseArgs                                                               *)
(*                                                                         *)
(* An argument is a Go string, modelled as the sequence of its characters. *)
(***************************************************************************)

\* the arguments tried: the four options, an unknown option, two numbers, a
\* negative number and a malformed number
Tokens ==
    {<<"-", "n">>, <<"-", "c">>, <<"-", "p">>, <<"-", "k">>, <<"-", "z">>,
     <<"1", "0">>, <<"5">>, <<"-", "1">>, <<"1", "a">>}

ArgLists == UNION {[1..n -> Tokens] : n \in 0..MaxArgs}

IsDigit(ch) == \E d \in 1..10 : Digits[d] = ch

DigitValue(ch) == (CHOOSE d \in 1..10 : Digits[d] = ch) - 1

\* the value of a string of decimal digits
RECURSIVE AtoiDigits(_)
AtoiDigits(s) ==
    IF s = <<>> THEN 0
    ELSE AtoiDigits(SubSeq(s, 1, Len(s) - 1)) * 10 + DigitValue(s[Len(s)])

\* a conversion that skips the characters that are not digits
AtoiLenient(s) ==
    LET digits == SelectSeq(s, IsDigit)
    IN  [ok |-> digits # <<>>,
         n |-> IF s # <<>> /\ s[1] = "-" THEN -AtoiDigits(digits)
               ELSE AtoiDigits(digits)]

\* strconv.Atoi: an optional sign followed by one or more decimal digits;
\* anything else is an error (the arguments tried are far from the range of
\* int)
Atoi(s) ==
    LET signed == s # <<>> /\ s[1] \in {"+", "-"}
        digits == IF signed THEN Tail(s) ELSE s
    IN  IF digits = <<>> \/ \E k \in 1..Len(digits) : ~IsDigit(digits[k])
        THEN [ok |-> FALSE, n |-> 0]
        ELSE [ok |-> TRUE,
              n |-> IF s[1] = "-" THEN -AtoiDigits(digits) ELSE AtoiDigits(digits)]

\* main is about to call parseArgs(os.Args[1:]); nothing else exists yet
ParseInit ==
    /\ arguments \in ArgLists
    /\ args = arguments
    /\ err = ""
    /\ mainPC = "parseArgs"
    /\ numberProducers = 0
    /\ numberConsumers = 0
    /\ numWidgets = 0
    /\ badWidgetNum = 0
    /\ numOfWidgets = 0
    /\ IDChan = <<>>
    /\ IDChanClosed = FALSE
    /\ widgetChan = <<>>
    /\ widgetChanClosed = FALSE
    /\ producerWG = 0
    /\ consumerWG = 0
    /\ producerPC = [p \in Producers |-> "off"]
    /\ consumerPC = [c \in Consumers |-> "off"]
    /\ issuerPC = "off"
    /\ i = 1
    /\ w = [p \in Producers |-> NoWidget]
    /\ val = [c \in Consumers |-> NoWidget]
    /\ panicked = FALSE
    /\ issued = <<>>
    /\ produced = <<>>
    /\ consumed = <<>>
    /\ sigSends = 0
    /\ issuedAtSend = -1
    /\ issuedAtSignal = -1
    /\ pushedAfterSignal = [p \in Producers |-> 0]
    /\ receivedAtClose = -1
    /\ producersShouldStop = FALSE
    /\ currentID = 1

\* what parseArgs leaves alone
rest == <<numOfWidgets, IDChan, IDChanClosed, widgetChan, widgetChanClosed,
          producerWG, consumerWG, producerPC, consumerPC, issuerPC, i, w, val,
          panicked, history, flag, args>>

\* return 0, 0, 0, 0, errors.New(message)
ParseError(message) ==
    /\ numWidgets' = 0
    /\ numberConsumers' = 0
    /\ numberProducers' = 0
    /\ badWidgetNum' = 0
    /\ err' = message
    /\ mainPC' = "parsed"

\* if len(arguments)%2 != 0 { return error }; then the default values
ParseLength ==
    /\ mainPC = "parseArgs"
    /\ IF Len(arguments) % 2 # 0
       THEN ParseError("invalid number of options")
       ELSE /\ numberProducers' = 1
            /\ numberConsumers' = 1
            /\ numWidgets' = 10
            /\ badWidgetNum' = -1
            /\ mainPC' = "parseLoop"
            /\ UNCHANGED err
    /\ UNCHANGED <<arguments, rest>>

\* one iteration of for len(arguments) > 0: the quantity is converted first,
\* then the option is looked up, then the list moves on by two
ParsePair ==
    /\ mainPC = "parseLoop"
    /\ arguments # <<>>
    /\ LET option == arguments[1]
           quantity == Atoi(arguments[2])
       IN  IF ~quantity.ok
           THEN ParseError("can't convert quantity to integer") /\ UNCHANGED arguments
           ELSE IF option \notin {<<"-", "n">>, <<"-", "c">>, <<"-", "p">>, <<"-", "k">>}
           THEN ParseError("invalid option") /\ UNCHANGED arguments
           ELSE /\ numWidgets' = IF option = <<"-", "n">> THEN quantity.n ELSE numWidgets
                /\ numberConsumers' =
                       IF option = <<"-", "c">> THEN quantity.n ELSE numberConsumers
                /\ numberProducers' =
                       IF option = <<"-", "p">> THEN quantity.n ELSE numberProducers
                /\ badWidgetNum' = IF option = <<"-", "k">> THEN quantity.n ELSE badWidgetNum
                /\ arguments' = SubSeq(arguments, 3, Len(arguments))
                /\ UNCHANGED <<err, mainPC>>
    /\ UNCHANGED rest

\* return numWidgets, numConsumers, numProducers, kthBadWidget, nil
ParseReturn ==
    /\ mainPC = "parseLoop"
    /\ arguments = <<>>
    /\ mainPC' = "parsed"
    /\ UNCHANGED <<config, arguments, err, rest>>

parseArgs == ParseLength \/ ParsePair \/ ParseReturn

ParseSpec == ParseInit /\ [][parseArgs]_vars

(***************************************************************************)
(* Properties                                                              *)
(***************************************************************************)

\* main has returned
Finished == mainPC = "done"

ProducersExited == \A p \in Producers : producerPC[p] \in {"done", "off"}
ConsumersExited == \A c \in Consumers : consumerPC[c] \in {"done", "off"}

\* the bad ordinal names a widget of the run
InRange == 1 <= badWidgetNum /\ badWidgetNum <= numWidgets

\* what the history would keep of the widgets buffered in widgetChan
Buffered == [k \in 1..Len(widgetChan) |-> Logged(widgetChan[k])]

\* positions in produced of the broken widgets
BrokenProduced == {k \in 1..Len(produced) : produced[k].broken}

\* ids received from IDChan so far
Received == Len(issued) - Len(IDChan)

\* C1: at every moment the widgets pushed are exactly those consumed, each
\* once and in the order pushed, followed by those still buffered; when main
\* has returned nothing is buffered and consumed equals produced, with or
\* without a stop.
C1_ConsumedEqualsProduced ==
    /\ produced = consumed \o Buffered
    /\ Finished => consumed = produced

C1_Witness ==
    /\ Finished
    /\ numberConsumers = 2
    /\ Len(consumed) >= 2
    /\ issuedAtSignal >= 0

\* C2: every fair run ends: all producers and consumers have exited, main
\* has closed widgetChan and returned.
C2_Terminates ==
    <>(Finished /\ ProducersExited /\ ConsumersExited /\ widgetChanClosed)

C2_Witness ==
    /\ Finished
    /\ ProducersExited
    /\ ConsumersExited
    /\ sigSends = 1
    /\ numWidgets >= 2

\* C3: the ids sent on IDChan are 1, 2, ..., m in that order with
\* m <= numWidgets; m = numWidgets once the loop has ended, and m is the count
\* at the signal after an early stop; no two widgets pushed carry the same id.
C3_IssuedInOrder ==
    /\ Len(issued) <= numWidgets
    /\ \A k \in 1..Len(issued) : issued[k] = k
    /\ issuerPC \in {"wait", "waiting", "close215"} => Len(issued) = numWidgets
    /\ issuerPC = "close206" => Len(issued) = issuedAtSignal /\ Len(issued) < numWidgets
    /\ \A a, b \in 1..Len(produced) :
          a # b => produced[a].id # produced[b].id

C3_Witness ==
    /\ numberProducers = 2
    /\ Len(issued) = 3
    /\ Len(produced) = 3
    /\ produced[1].id = "2"

\* C4: only the widget whose id is the bad ordinal is ever broken, there is
\* never more than one, and when main has returned there is exactly one if
\* 1 <= badWidgetNum <= numWidgets and none otherwise.
C4_OneBrokenWidget ==
    /\ \A k \in BrokenProduced : produced[k].id = Itoa(badWidgetNum)
    /\ Cardinality(BrokenProduced) <= 1
    /\ Finished => Cardinality(BrokenProduced) = IF InRange THEN 1 ELSE 0

C4_Witness ==
    /\ Finished
    /\ badWidgetNum = 2
    /\ Len(produced) = 3
    /\ Cardinality(BrokenProduced) = 1

\* C5: widgetChan is closed only when every producer has returned and the
\* producer wait group is at zero; no push ever hits the closed channel.
C5_ClosedAfterProducers ==
    /\ widgetChanClosed => ProducersExited /\ producerWG = 0
    /\ ~panicked

C5_Witness ==
    /\ widgetChanClosed
    /\ numberProducers = 2
    /\ Len(produced) >= 2

\* C6: a consumer has exited only if all producers have exited, main has
\* closed widgetChan and its buffer is empty; main has returned only if all
\* consumers have exited.
C6_ConsumersExitLast ==
    /\ \A c \in Consumers :
          consumerPC[c] = "done" =>
              /\ ProducersExited
              /\ widgetChanClosed
              /\ widgetChan = <<>>
    /\ Finished => ConsumersExited /\ consumerWG = 0

C6_Witness ==
    /\ Finished
    /\ numberConsumers = 2
    /\ Len(consumed) >= 1

\* C7 as claimed: in every run generateIDs eventually closes IDChan and returns.
C7_IssuerEventuallyCloses == <>(IDChanClosed /\ issuerPC = "done")

\* C7 amended: IDChan is closed only after generateIDs has received a signal
\* that a consumer sent, and generateIDs returns only after closing; having sent
\* all the ids does not close it, so without a broken widget it never closes.
C7_ClosedOnlyOnSignal ==
    /\ IDChanClosed => issuedAtSignal >= 0
    /\ issuedAtSignal >= 0 => sigSends >= 1
    /\ issuerPC = "done" => IDChanClosed
    /\ ~InRange => ~IDChanClosed /\ issuerPC # "done"

C7_Witness ==
    /\ IDChanClosed
    /\ issuerPC = "done"
    /\ numWidgets >= 2
    /\ issuedAtSignal = numWidgets

\* C8 as claimed: once IDChan is closed no producer receives an id from it.
C8_NoIDAfterClose == receivedAtClose >= 0 => Received = receivedAtClose

\* C9 as claimed: after generateIDs has received the signal each producer
\* pushes at most one more widget.
C9_AtMostOnePushAfterSignal == \A p \in Producers : pushedAfterSignal[p] <= 1

\* C10: once a consumer has begun g.sigChan <- 1, generateIDs sends at most
\* one more id before it receives the signal; after receiving it sends none,
\* and its next step closes IDChan and returns.
C10_OneIssuanceCycle ==
    /\ issuedAtSend >= 0 => Len(issued) <= issuedAtSend + 1
    /\ issuedAtSignal >= 0 =>
          /\ Len(issued) = issuedAtSignal
          /\ issuerPC \in {"close206", "close215", "done"}

C10_Witness ==
    /\ issuedAtSend >= 0
    /\ issuedAtSignal = issuedAtSend + 1
    /\ issuedAtSignal < numWidgets
    /\ IDChanClosed

C12_LateSignalAbsorbed ==
    (Len(issued) = numWidgets /\ \E c \in Consumers : consumerPC[c] \in {"signal", "parked"})
        ~> (ConsumersExited /\ Len(consumed) = numWidgets)

C12_Witness ==
    /\ Finished
    /\ numberConsumers = 1
    /\ issuedAtSend = numWidgets
    /\ issuerPC = "done"
    /\ badWidgetNum = 1
    /\ Len(consumed) = 3

\* C13: no run consumes more than numWidgets widgets, and when main has
\* returned from a run in which a consumer met the broken widget, the signal
\* was delivered and the number of widgets consumed is at least the number of
\* ids generateIDs had sent when it received the signal.
C13_ConsumedCountBounds ==
    /\ Len(consumed) <= numWidgets
    /\ (Finished /\ \E k \in 1..Len(consumed) : consumed[k].broken) =>
          /\ issuedAtSignal >= 0
          /\ issuedAtSignal <= Len(consumed)

C13_Witness ==
    /\ Finished
    /\ numWidgets = 3
    /\ badWidgetNum = 1
    /\ issuedAtSignal = 2
    /\ Len(consumed) = 2

\* C14: when badWidgetNum is outside 1..numWidgets no consumer ever sends on
\* sigChan, IDChan is never closed, no widget pushed or consumed is broken,
\* and when main has returned exactly the widgets with ids 1..numWidgets have
\* been pushed and consumed.
C14_NoBrokenWidgetRun ==
    ~InRange =>
        /\ sigSends = 0
        /\ issuedAtSignal = -1
        /\ ~IDChanClosed
        /\ BrokenProduced = {}
        /\ \A k \in 1..Len(consumed) : ~consumed[k].broken
        /\ Finished =>
              /\ Len(produced) = numWidgets
              /\ Len(consumed) = numWidgets
              /\ {produced[k].id : k \in 1..Len(produced)} = {Itoa(j) : j \in 1..numWidgets}
              /\ {consumed[k].id : k \in 1..Len(consumed)} = {Itoa(j) : j \in 1..numWidgets}

C14_Witness ==
    /\ Finished
    /\ badWidgetNum = -1
    /\ numberProducers = 2
    /\ Len(consumed) = 3

\* C15: with numWidgets = 0 no id is sent, no widget is pushed or consumed
\* and nothing panics; a producer never gets past the test of its first
\* getWidget call; the run does not get stuck before main returns, and main
\* returns with widgetChan closed and empty and every producer and consumer
\* exited.
C15_NoWidgetsRun ==
    numWidgets = 0 =>
        /\ issued = <<>>
        /\ produced = <<>>
        /\ consumed = <<>>
        /\ widgetChan = <<>>
        /\ ~panicked
        /\ \A p \in Producers : producerPC[p] \in {"getWidget", "done", "off"}
        /\ Finished \/ ENABLED Next
        /\ Finished => ProducersExited /\ ConsumersExited /\ widgetChanClosed

C15_Witness ==
    /\ Finished
    /\ numWidgets = 0
    /\ numberProducers = 2
    /\ numberConsumers = 2
    /\ widgetChanClosed

\* C16 as claimed: with numberProducers <= 0 or numberConsumers <= 0 the
\* configuration is refused before anything is started: generateIDs, the
\* producers and the consumers are never spawned and nothing is left running.
C16_InvalidConfigurationFailsFast ==
    (numberProducers <= 0 \/ numberConsumers <= 0) =>
        /\ issuerPC = "off"
        /\ \A p \in Producers : producerPC[p] = "off"
        /\ \A c \in Consumers : consumerPC[c] = "off"

\* C17: a step that begins the send on sigChan, delivers the signal to
\* generateIDs or closes IDChan leaves widgetChan as it was, open or closed
\* and with the same content; and from the delivery on every widget pushed
\* is either consumed or still buffered, none being left when main returns.
C17_StopLeavesWidgetChan ==
    /\ [][(\/ sigSends' # sigSends
           \/ issuedAtSignal' # issuedAtSignal
           \/ IDChanClosed' # IDChanClosed)
          => /\ widgetChan' = widgetChan
             /\ widgetChanClosed' = widgetChanClosed]_vars
    /\ [](issuedAtSignal >= 0 =>
             /\ Len(produced) = Len(consumed) + Len(widgetChan)
             /\ \A k \in 1..Len(widgetChan) :
                   Logged(widgetChan[k]) = produced[Len(consumed) + k]
             /\ Finished => widgetChan = <<>>)

C17_Witness ==
    /\ issuedAtSignal >= 0
    /\ ~IDChanClosed
    /\ Len(widgetChan) >= 1
    /\ \E p \in Producers : producerPC[p] = "push"

\* C18: when getWidget returns a widget to producer p, its id is the decimal
\* form of the id that call took from the head of IDChan, its source is
\* "Producer_" followed by p, and it is broken iff that id is badWidgetNum;
\* so with badWidgetNum = 2 the widget "1" is normal and the widget "2" broken,
\* whichever producer and whichever of its calls received it.
C18_WidgetFromIssuedID ==
    /\ [][\A p \in Producers :
            (producerPC[p] = "recvID" /\ producerPC'[p] = "push") =>
                /\ IDChan # <<>>
                /\ IDChan' = Tail(IDChan)
                /\ w'[p].id = Itoa(Head(IDChan))
                /\ w'[p].source = "Producer_" \o Itoa(p)
                /\ w'[p].broken = (Head(IDChan) = badWidgetNum)]_vars
    /\ [](\A p \in Producers :
            producerPC[p] = "push" =>
                /\ w[p].id \in {Itoa(k) : k \in 1..Received}
                /\ p = 1 => w[p].source = "Producer_1"
                /\ badWidgetNum = 2 =>
                      /\ w[p].id = "1" => ~w[p].broken
                      /\ w[p].id = "2" => w[p].broken)

C18_Witness ==
    /\ badWidgetNum = 2
    /\ producerPC[1] = "push"
    /\ w[1] = [id |-> "1", source |-> "Producer_1", broken |-> FALSE]
    /\ producerPC[2] = "push"
    /\ w[2] = [id |-> "2", source |-> "Producer_2", broken |-> TRUE]
    /\ produced = <<>>

\* C19: a producer returns exactly on getWidget's error, which comes either
\* from the test of numOfWidgets, when it is 0, or from the receive, when
\* IDChan is closed and empty; it pushes nothing in that step and its wait
\* group entry is released.  On the first error IDChan is not received from
\* and numOfWidgets stays 0; in every other case the call goes on to the
\* receive, or to the push.
C19_GetWidgetError ==
    /\ [][\A p \in Producers :
            /\ (producerPC[p] # "done" /\ producerPC'[p] = "done") =>
                  /\ widgetChan' = widgetChan
                  /\ produced' = produced
                  /\ producerWG' = producerWG - 1
                  /\ \/ /\ producerPC[p] = "getWidget"
                        /\ numOfWidgets = 0
                        /\ numOfWidgets' = 0
                        /\ IDChan' = IDChan
                     \/ /\ producerPC[p] = "recvID"
                        /\ IDChanClosed
                        /\ IDChan = <<>>
            /\ (producerPC[p] = "getWidget" /\ producerPC'[p] # "getWidget") =>
                  (numOfWidgets = 0 <=> producerPC'[p] = "done")
            /\ (producerPC[p] = "recvID" /\ producerPC'[p] # "recvID") =>
                  ((IDChanClosed /\ IDChan = <<>>) <=> producerPC'[p] = "done")]_vars
    /\ [](/\ numOfWidgets >= 0
          /\ producerWG = Cardinality({p \in Producers : producerPC[p] \notin {"done", "off"}})
          /\ \A p \in Producers : producerPC[p] = "done" => w[p] = NoWidget)

\* a run stopped early in which both producers have returned: fewer ids were
\* sent than numWidgets, so a receive met the closed, empty IDChan, and the
\* count is used up
C19_Witness ==
    /\ ProducersExited
    /\ numberProducers = 2
    /\ numOfWidgets = 0
    /\ IDChanClosed
    /\ Len(issued) < numWidgets
    /\ Len(produced) = Len(issued)

\* widgets pushed after producersShouldStop was set, over all producers
RECURSIVE PushedAfterSignalUpTo(_)
PushedAfterSignalUpTo(p) ==
    IF p = 0 THEN 0 ELSE PushedAfterSignalUpTo(p - 1) + pushedAfterSignal[p]

\* C20: in the flag revision, once producersShouldStop is true each producer
\* pushes at most one more widget, and the getWidget call that follows finds
\* the flag and makes it return; so at most numberProducers widgets are pushed
\* after the flag was set.
C20_OneMoreWidgetPerProducer ==
    /\ [](/\ \A p \in Producers : pushedAfterSignal[p] <= 1
          /\ PushedAfterSignalUpTo(MaxProducers) <= numberProducers)
    /\ [][\A p \in Producers :
            (producersShouldStop /\ producerPC[p] = "getWidget"
                /\ producerPC'[p] # "getWidget") => producerPC'[p] = "done"]_vars

C20_Witness ==
    /\ Finished
    /\ numberProducers = 2
    /\ numWidgets = 3
    /\ badWidgetNum = 1
    /\ pushedAfterSignal = [p \in Producers |-> 1]
    /\ numOfWidgets = 0

\* C21: in the flag revision producersShouldStop becomes true exactly in the
\* step in which getConsumeMessage handles a broken widget, a normal widget's
\* consumption leaves it as it is, and once true it stays true; a getWidget
\* call begun with the flag true returns the error, the producer returns, and
\* currentID and numOfWidgets are left unchanged.
C21_FlagSetOnceAndHeeded ==
    /\ [][/\ producersShouldStop => producersShouldStop'
          /\ \A c \in Consumers :
                /\ (consumerPC[c] = "setStop" /\ consumerPC'[c] # "setStop") =>
                      val[c].broken /\ producersShouldStop'
                /\ (consumerPC[c] = "recv" /\ consumerPC'[c] = "setStop") =>
                      Head(widgetChan).broken
          /\ (consumed' # consumed /\ ~Head(widgetChan).broken) =>
                /\ producersShouldStop' = producersShouldStop
                /\ \A c \in Consumers : consumerPC'[c] = consumerPC[c]
          /\ (producersShouldStop' # producersShouldStop) =>
                \E c \in Consumers : consumerPC[c] = "setStop" /\ consumerPC'[c] = "recv"
          /\ \A p \in Producers :
                (producersShouldStop /\ producerPC[p] = "getWidget"
                    /\ producerPC'[p] # "getWidget") =>
                      /\ producerPC'[p] = "done"
                      /\ currentID' = currentID
                      /\ numOfWidgets' = numOfWidgets
                      /\ w'[p] = NoWidget]_vars
    /\ [](/\ producersShouldStop => \E k \in 1..Len(consumed) : consumed[k].broken
          /\ currentID + numOfWidgets = numWidgets + 1)

C21_Witness ==
    /\ producersShouldStop
    /\ ProducersExited
    /\ numberProducers = 2
    /\ numOfWidgets >= 1
    /\ currentID = 3
    /\ consumed[1].broken

\* C23: g.sigChan <- 1 is begun once for each broken widget a consumer has
\* received and has finished handling up to the send, only by a consumer
\* holding a broken widget, and a normal widget never brings a consumer to
\* the send; at most one send is begun in a run.
C23_OneStopPerBrokenWidget ==
    /\ [](/\ sigSends <= 1
          /\ sigSends + Cardinality({c \in Consumers : consumerPC[c] = "signal"})
                = Cardinality({k \in 1..Len(consumed) : consumed[k].broken}))
    /\ [][/\ sigSends' # sigSends =>
                /\ sigSends' = sigSends + 1
                /\ \E c \in Consumers :
                      /\ consumerPC[c] = "signal"
                      /\ val[c].broken
                      /\ consumerPC'[c] \in {"parked", "recv"}
          /\ \A c \in Consumers :
                (consumerPC[c] = "recv" /\ consumerPC'[c] = "signal") =>
                    Head(widgetChan).broken]_vars

C23_Witness ==
    /\ Finished
    /\ sigSends = 1
    /\ numberConsumers = 2
    /\ Len(consumed) = 3
    /\ consumed[2].broken

\* C24 as claimed: the remaining count is owned by generateIDs: numOfWidgets
\* changes only in a step of generateIDs, never in a step of a producer.
C24_CountOwnedByIssuer ==
    [][numOfWidgets' # numOfWidgets =>
          /\ issuerPC' # issuerPC
          /\ \A p \in Producers : producerPC'[p] = producerPC[p]]_vars

\* C24 amended: numOfWidgets is shared by the producers; it changes only when
\* a producer passes the test in getWidget, by one, and never in a step of
\* generateIDs.  A producer's step changes nothing of another producer, of the
\* consumers, of generateIDs or of main, and of the shared state only
\* numOfWidgets (in the test), IDChan's buffer (in the receive), widgetChan's
\* buffer (in the push) and the wait group (on return).
C24_CountSharedByProducers ==
    [][/\ numOfWidgets' # numOfWidgets =>
             /\ numOfWidgets' = numOfWidgets - 1
             /\ \E p \in Producers :
                   producerPC[p] = "getWidget" /\ producerPC'[p] = "recvID"
       /\ (issuerPC' # issuerPC \/ i' # i) => numOfWidgets' = numOfWidgets
       /\ \A p \in Producers :
             producerPC'[p] # producerPC[p] =>
                 /\ \A q \in Producers \ {p} :
                       producerPC'[q] = producerPC[q] /\ w'[q] = w[q]
                 /\ UNCHANGED <<IDChanClosed, widgetChanClosed, consumerPC,
                                consumerWG, issuerPC, i, mainPC, val, sigSends,
                                issued, consumed>>
                 /\ producerPC[p] = "getWidget" => UNCHANGED <<IDChan, widgetChan>>
                 /\ producerPC[p] = "recvID" => UNCHANGED <<numOfWidgets, widgetChan>>
                 /\ producerPC[p] = "push" => UNCHANGED <<numOfWidgets, IDChan>>
                 /\ producerWG' # producerWG => producerPC'[p] = "done"]_vars

C24_Witness ==
    /\ numWidgets = 3
    /\ numOfWidgets = 1
    /\ producerPC[1] = "recvID"
    /\ producerPC[2] = "recvID"
    /\ issued = <<>>

\* producers standing in the receive from IDChan
Receiving == {p \in Producers : producerPC[p] = "recvID"}

\* C25: 0 <= numOfWidgets <= numWidgets always; every decrement is the step
\* of exactly one producer going on to the receive from IDChan and every
\* such step is a decrement, so numWidgets - numOfWidgets counts the receives
\* attempted: the ids received plus the receives pending, plus, once IDChan is
\* closed and empty, the receives that found it so; never more than
\* numWidgets.
C25_RemainingCount ==
    /\ [](/\ 0 <= numOfWidgets
          /\ numOfWidgets <= numWidgets
          /\ Received + Cardinality(Receiving) <= numWidgets - numOfWidgets
          /\ ~(IDChanClosed /\ IDChan = <<>>) =>
                Received + Cardinality(Receiving) = numWidgets - numOfWidgets)
    /\ [][Cardinality({p \in Producers :
                          producerPC[p] = "getWidget" /\ producerPC'[p] = "recvID"})
             = numOfWidgets - numOfWidgets']_vars

C25_Witness ==
    /\ ProducersExited
    /\ numberProducers = 2
    /\ numWidgets = 3
    /\ numOfWidgets = 0
    /\ Received = 1

\* C26: IDChan and widgetChan never hold more than numWidgets elements, and
\* numWidgets is at most their capacity; when generateIDs stands before its
\* send IDChan holds fewer than numWidgets, and when a producer stands before
\* its push widgetChan does, so neither send finds a full buffer; in
\* particular while a consumer is blocked in g.sigChan <- 1 generateIDs is
\* before a select, a send that can proceed, or its final read.
C26_NoSendBlocks ==
    /\ Len(IDChan) <= numWidgets
    /\ Len(widgetChan) <= numWidgets
    /\ numWidgets <= Capacity
    /\ issuerPC = "send" =>
          /\ Len(IDChan) < numWidgets
          /\ Len(IDChan) < Capacity
    /\ \A p \in Producers :
          producerPC[p] = "push" =>
              /\ Len(widgetChan) < numWidgets
              /\ Len(widgetChan) < Capacity
    /\ Parked # {} => issuerPC \in {"select", "send", "wait"}

C26_Witness ==
    /\ Parked # {}
    /\ issuerPC = "send"
    /\ Len(IDChan) >= 1

\* C27: when generateIDs is about to close IDChan or has closed it, a consumer
\* has received the broken widget, so badWidgetNum is in 1..numWidgets and
\* the ids 1..badWidgetNum were all sent before; with badWidgetNum outside
\* that range IDChan is never closed.
C27_ClosedAfterBrokenConsumed ==
    /\ (IDChanClosed \/ issuerPC \in {"close206", "close215"}) =>
          /\ InRange
          /\ \E k \in 1..Len(consumed) :
                consumed[k].broken /\ consumed[k].id = Itoa(badWidgetNum)
          /\ Len(issued) >= badWidgetNum
          /\ \A j \in 1..badWidgetNum : issued[j] = j
    /\ ~InRange => ~IDChanClosed

C27_Witness ==
    /\ IDChanClosed
    /\ numWidgets = 3
    /\ badWidgetNum = 2
    /\ issued = <<1, 2>>

\* the integers among the arguments tried, with their values
IntValue ==
    (<<"1", "0">> :> 10) @@ (<<"5">> :> 5) @@ (<<"-", "1">> :> -1)

\* the option and quantity positions of the list parseArgs was called with
Pairs == 1..(Len(args) \div 2)

\* the quantity of the last pair that names the option, or the default
Given(option, default) ==
    LET at == {k \in Pairs : args[2 * k - 1] = option}
    IN  IF at = {} THEN default
        ELSE IntValue[args[2 * (CHOOSE k \in at : \A j \in at : j <= k)]]

\* C22: parseArgs returns an error, with all four quantities 0, exactly when
\* the list has odd length, or some option is not -n, -c, -p or -k, or some
\* quantity is not an integer; otherwise it returns nil and for each option
\* the quantity given for it, or the default 10, 1, 1, -1 when it is not given.
C22_ParseArgs ==
    mainPC = "parsed" =>
        LET bad == \/ Len(args) % 2 = 1
                   \/ \E k \in Pairs :
                         \/ args[2 * k - 1] \notin
                                {<<"-", "n">>, <<"-", "c">>, <<"-", "p">>, <<"-", "k">>}
                         \/ args[2 * k] \notin DOMAIN IntValue
        IN  /\ err # "" <=> bad
            /\ err # "" => config = <<0, 0, 0, 0>>
            /\ err = "" =>
                  /\ numWidgets = Given(<<"-", "n">>, 10)
                  /\ numberConsumers = Given(<<"-", "c">>, 1)
                  /\ numberProducers = Given(<<"-", "p">>, 1)
                  /\ badWidgetNum = Given(<<"-", "k">>, -1)

C22_Witness ==
    /\ mainPC = "parsed"
    /\ err = ""
    /\ args = <<<<"-", "c">>, <<"1", "0">>, <<"-", "k">>, <<"5">>>>
    /\ numberConsumers = 10
    /\ badWidgetNum = 5
    /\ numWidgets = 10
    /\ numberProducers = 1

====
